---- MODULE Spec2Model ----
(***************************************************************************)
(* The Minesweeper knowledge base of src/week1/minesweeper/minesweeper.py: *)
(* the board (class Minesweeper), the sentences (class Sentence) and the   *)
(* player (class MinesweeperAI) with add_knowledge, make_safe_move and     *)
(* make_random_move.                                                       *)
(*                                                                         *)
(* A cell is the pair <<i, j>> with 0 <= i < height and 0 <= j < width, as *)
(* in the source.  A sentence is the record [cells, count]; record         *)
(* equality is Sentence.__eq__.  The knowledge base is a sequence, in the  *)
(* order of the Python list self.knowledge.                                *)
(*                                                                         *)
(* And the Tic Tac Toe player of src/week0/tictactoe/tictactoe.py: player, *)
(* actions, result, winner, terminal, utility and minimax.                 *)
(***************************************************************************)
EXTENDS Integers, Sequences, FiniteSets, TLC

\* Every board of at most MaxCells cells (all shapes height x width with
\* height * width <= MaxCells) and every placement of mines on it is explored.
MaxCells == 6

\* The boards of the specification whose observations need not be truthful.
MaxCellsUntruthful == 3

\* The boards of the specification that runs add_knowledge one loop iteration
\* at a time.
MaxCellsSteps == 4

\* minimax is asked of the Tic Tac Toe boards with at most MaxEmpty empty cells.
MaxEmpty == 4

VARIABLES
    height,         \* Minesweeper.height, MinesweeperAI.height
    width,          \* Minesweeper.width, MinesweeperAI.width
    board,          \* Minesweeper.mines: the cells (i, j) with board[i][j] = True
    moves_made,     \* MinesweeperAI.moves_made
    mines,          \* MinesweeperAI.mines
    safes,          \* MinesweeperAI.safes
    knowledge,      \* MinesweeperAI.knowledge, a list of sentences
    ret,            \* what the last make_safe_move / make_random_move returned
    pc,             \* where add_knowledge stands: "idle" between calls
    idx,            \* the index of the for loop add_knowledge is in
    new_sentences,  \* the local list new_sentences of add_knowledge
    tboard          \* the Tic Tac Toe board the functions of tictactoe.py are given

vars == <<height, width, board, moves_made, mines, safes, knowledge, ret,
          pc, idx, new_sentences, tboard>>

\* Python's None, as a return value of the move functions (a cell is a pair).
None == <<>>

\* An optional set, for the two Sentence methods that return a set or fall
\* off their end (None): Nothing is None, Some(x) is the set x returned.
Nothing == {}
Some(x) == {x}

---------------------------------------------------------------------------
(* class Minesweeper *)

Cells(h, w) == (0 .. h - 1) \X (0 .. w - 1)

\* range(cell[0] - 1, cell[0] + 2) x range(cell[1] - 1, cell[1] + 2)
Square(cell) == (cell[1] - 1 .. cell[1] + 1) \X (cell[2] - 1 .. cell[2] + 1)

InBounds(c) == 0 <= c[1] /\ c[1] < height /\ 0 <= c[2] /\ c[2] < width

is_mine(cell) == cell \in board

nearby_mines(cell) ==
    Cardinality({c \in Square(cell) : c # cell /\ InBounds(c) /\ c \in board})

---------------------------------------------------------------------------
(* class Sentence *)

Sentence(cells, count) == [cells |-> cells, count |-> count]

\* known_mines with the further test count > 0.
known_mines_when_positive(s) ==
    IF Cardinality(s.cells) = s.count /\ s.count > 0 THEN Some(s.cells) ELSE Nothing

known_mines(s) ==
    IF Cardinality(s.cells) = s.count THEN Some(s.cells) ELSE Nothing

\* known_safes as its comment words it ("If number of cells equals 0"): the
\* test on the cells instead of on the count.
known_safes_when_empty(s) ==
    IF Cardinality(s.cells) = 0 THEN Some(s.cells) ELSE Nothing

known_safes(s) ==
    IF s.count = 0 THEN Some(s.cells) ELSE Nothing

\* mark_mine without "self.count -= 1".
Sentence_mark_mine_keeping_count(s, cell) ==
    IF cell \in s.cells
    THEN Sentence(s.cells \ {cell}, s.count)
    ELSE s

Sentence_mark_mine(s, cell) ==
    IF cell \in s.cells
    THEN Sentence(s.cells \ {cell}, s.count - 1)
    ELSE s

\* mark_safe as a copy of mark_mine (the first comment line of its body is
\* mark_mine's): the count is decreased too.
Sentence_mark_safe_decrementing(s, cell) ==
    IF cell \in s.cells
    THEN Sentence(s.cells \ {cell}, s.count - 1)
    ELSE s

Sentence_mark_safe(s, cell) ==
    IF cell \in s.cells
    THEN Sentence(s.cells \ {cell}, s.count)
    ELSE s

---------------------------------------------------------------------------
(* class MinesweeperAI.  The methods are operators on the record kb of the *)
(* player's fields; the actions below apply them to the variables.         *)

KB(mm, mn, sf, kn) ==
    [moves_made |-> mm, mines |-> mn, safes |-> sf, knowledge |-> kn]

kbNow == KB(moves_made, mines, safes, knowledge)

\* mark_mine without the loop over self.knowledge: the cell is added to
\* self.mines and stays in the sentences.
mark_mine_leaving_sentences(kb, cell) == [kb EXCEPT !.mines = @ \cup {cell}]

mark_mine(kb, cell) ==
    [kb EXCEPT !.mines = @ \cup {cell},
               !.knowledge = [k \in DOMAIN @ |-> Sentence_mark_mine(@[k], cell)]]

mark_safe(kb, cell) ==
    [kb EXCEPT !.safes = @ \cup {cell},
               !.knowledge = [k \in DOMAIN @ |-> Sentence_mark_safe(@[k], cell)]]

\* for safe_cell in list(sentence.known_safes()): self.mark_safe(safe_cell)
\* The list is a copy taken before the loop; the marks commute, so the order
\* in which the copy is walked does not show in the result.
RECURSIVE MarkSafeEach(_, _)
MarkSafeEach(kb, cs) ==
    IF cs = {} THEN kb
    ELSE LET safe_cell == CHOOSE c \in cs : TRUE
         IN  MarkSafeEach(mark_safe(kb, safe_cell), cs \ {safe_cell})

\* for mine_cell in list(sentence.known_mines()): self.mark_mine(mine_cell)
RECURSIVE MarkMineEach(_, _)
MarkMineEach(kb, cs) ==
    IF cs = {} THEN kb
    ELSE LET mine_cell == CHOOSE c \in cs : TRUE
         IN  MarkMineEach(mark_mine(kb, mine_cell), cs \ {mine_cell})

\* The body of the loop "for sentence in self.knowledge" for the sentence at
\* index k: known_mines is asked of the sentence as the safe marks left it.
ExtractAt(kb, k) ==
    LET ks  == known_safes(kb.knowledge[k])
        kb1 == IF ks # Nothing
               THEN MarkSafeEach(kb, CHOOSE cs \in ks : TRUE)
               ELSE kb
        km  == known_mines(kb1.knowledge[k])
    IN  IF km # Nothing
        THEN MarkMineEach(kb1, CHOOSE cs \in km : TRUE)
        ELSE kb1

\* An extraction loop that starts over whenever the sentence it visited is a
\* determined one, rather than whenever a new cell was recorded.
AfterExtractRestart(kb, k) ==
    IF known_safes(kb.knowledge[k]) # Nothing THEN 1 ELSE k + 1

\* The index the extraction loop visits after index k: a Python for loop over
\* a list goes on to the next index, whatever the body did to the sentences.
AfterExtract(kb, k) == k + 1

\* The extraction loop from index k on: one pass over the list, whose length
\* the marks do not change.
RECURSIVE ExtractFrom(_, _)
ExtractFrom(kb, k) ==
    IF k > Len(kb.knowledge) THEN kb
    ELSE LET kb1 == ExtractAt(kb, k)
         IN  ExtractFrom(kb1, AfterExtract(kb1, k))

Extraction(kb) == ExtractFrom(kb, 1)

\* new_sentence not in self.knowledge, by Sentence.__eq__
InKnowledge(s, kn) == \E k \in DOMAIN kn : kn[k] = s

\* The inner loop "for sub_sentence in self.knowledge" from index j on, for the
\* super_sentence at index i: what it appends to new_sentences.
RECURSIVE SubLoop(_, _, _)
SubLoop(kn, i, j) ==
    IF j > Len(kn) THEN <<>>
    ELSE LET super_sentence == kn[i]
             sub_sentence   == kn[j]
             new_sentence   == Sentence(super_sentence.cells \ sub_sentence.cells,
                                        super_sentence.count - sub_sentence.count)
             appended ==
                 IF /\ sub_sentence.cells \subseteq super_sentence.cells
                    /\ ~InKnowledge(new_sentence, kn)
                 THEN <<new_sentence>>
                 ELSE <<>>
         IN  appended \o SubLoop(kn, i, j + 1)

\* One iteration of the outer loop "for super_sentence in self.knowledge".
ResolveAt(kn, i) == SubLoop(kn, i, 1)

RECURSIVE SuperLoop(_, _)
SuperLoop(kn, i) ==
    IF i > Len(kn) THEN <<>>
    ELSE ResolveAt(kn, i) \o SuperLoop(kn, i + 1)

\* self.knowledge.extend(new_sentences)
Resolution(kb) ==
    [kb EXCEPT !.knowledge = @ \o SuperLoop(@, 1)]

\* The inference part of add_knowledge: the extraction pass, then the subset
\* resolution pass.
Inference(kb) == Resolution(Extraction(kb))

\* The cells of the new sentence: the in-bounds cells of the square around
\* cell that are neither moves made nor known mines.
Neighbors(kb, cell) ==
    {c \in Square(cell) : InBounds(c) /\ c \notin kb.moves_made /\ c \notin kb.mines}

\* The count without the "count -= 1" of line 213.
AdjustedCountIgnoringMines(kb, cell, count) == count

\* count after "count -= 1" for every in-bounds cell of the square in mines
AdjustedCount(kb, cell, count) ==
    count - Cardinality({c \in Square(cell) : InBounds(c) /\ c \in kb.mines})

\* The first part of add_knowledge: the move and the safe cell are recorded
\* (self.safes.add, not self.mark_safe) and the new sentence is appended.
Ingest(kb, cell, count) ==
    LET kb1 == [kb EXCEPT !.moves_made = @ \cup {cell},
                          !.safes = @ \cup {cell}]
    IN  [kb1 EXCEPT !.knowledge =
            Append(@, Sentence(Neighbors(kb1, cell), AdjustedCount(kb1, cell, count)))]

add_knowledge(kb, cell, count) == Inference(Ingest(kb, cell, count))

\* make_safe_move without the test of line 270: any safe cell.
make_safe_move_any_safe(kb) ==
    IF kb.safes = {} THEN {None} ELSE kb.safes

\* make_safe_move walks list(self.safes), whose order Python does not fix, and
\* returns the first cell that is not a move made: any such cell, or None.
make_safe_move(kb) ==
    IF kb.safes \ kb.moves_made = {} THEN {None} ELSE kb.safes \ kb.moves_made

\* make_random_move without the test on self.mines of line 288.
make_random_move_ignoring_mines(kb) ==
    LET possible_moves == {c \in Cells(height, width) : c \notin kb.moves_made}
    IN  IF Cardinality(possible_moves) = 0 THEN {None} ELSE possible_moves

\* make_random_move: random.choice among the cells that are neither moves
\* made nor known mines, or None.
make_random_move(kb) ==
    LET possible_moves ==
            {c \in Cells(height, width) : c \notin kb.moves_made /\ c \notin kb.mines}
    IN  IF Cardinality(possible_moves) = 0 THEN {None} ELSE possible_moves

---------------------------------------------------------------------------
(* Tic Tac Toe, src/week0/tictactoe/tictactoe.py.  A board is a function   *)
(* from the cells <<row, cell>> with 0 <= row, cell <= 2 to X, O or EMPTY: *)
(* board[row][cell] of the source is b[<<row, cell>>].                     *)

X == "X"
O == "O"
\* EMPTY = None in the source: the value of an empty cell, and what player
\* and winner return when there is no player and no winner.
EMPTY == "None"

Grid == (0 .. 2) \X (0 .. 2)

initial_state == [c \in Grid |-> EMPTY]

player(b) ==
    LET x_count     == Cardinality({c \in Grid : b[c] = X})
        o_count     == Cardinality({c \in Grid : b[c] = O})
        empty_count == Cardinality({c \in Grid : b[c] # X /\ b[c] # O})
        cell_count  == Cardinality(Grid)
    IN  IF empty_count = 0 THEN EMPTY
        ELSE IF cell_count = empty_count \/ x_count = o_count THEN X
        ELSE IF x_count > o_count THEN O
        ELSE EMPTY

actions(b) == {c \in Grid : b[c] = EMPTY}

\* result raises on an action that is not in actions(board): it is applied to
\* such actions only.
result(b, action) == [b EXCEPT ![action] = player(b)]

\* The lines in the order winner tests them: the rows, the columns, the
\* diagonal from (0, 0), the diagonal from (0, 2).
Lines ==
    << << <<0, 0>>, <<0, 1>>, <<0, 2>> >>,
       << <<1, 0>>, <<1, 1>>, <<1, 2>> >>,
       << <<2, 0>>, <<2, 1>>, <<2, 2>> >>,
       << <<0, 0>>, <<1, 0>>, <<2, 0>> >>,
       << <<0, 1>>, <<1, 1>>, <<2, 1>> >>,
       << <<0, 2>>, <<1, 2>>, <<2, 2>> >>,
       << <<0, 0>>, <<1, 1>>, <<2, 2>> >>,
       << <<0, 2>>, <<1, 1>>, <<2, 0>> >> >>

\* The owner of the first line, in the order of the tests, whose three cells
\* are equal and not EMPTY.
winner(b) ==
    LET full == {k \in DOMAIN Lines :
                    /\ b[Lines[k][1]] = b[Lines[k][2]]
                    /\ b[Lines[k][2]] = b[Lines[k][3]]
                    /\ b[Lines[k][1]] # EMPTY}
    IN  IF full = {} THEN EMPTY
        ELSE b[Lines[CHOOSE k \in full : \A m \in full : k <= m][1]]

terminal(b) == IF player(b) = EMPTY THEN TRUE ELSE FALSE

utility(b) ==
    IF winner(b) = X THEN 1
    ELSE IF winner(b) = O THEN -1
    ELSE 0

RECURSIVE max_value(_), min_value(_)

\* max_value(board)[0].  v starts at -math.inf and is raised to the largest
\* min_value among the actions.
max_value(b) ==
    IF terminal(b) THEN utility(b)
    ELSE LET values == {min_value(result(b, action)) : action \in actions(b)}
         IN  CHOOSE v \in values : \A w \in values : v >= w

\* min_value(board)[0].
min_value(b) ==
    IF terminal(b) THEN utility(b)
    ELSE LET values == {max_value(result(b, action)) : action \in actions(b)}
         IN  CHOOSE v \in values : \A w \in values : v <= w

\* max_value(board)[1]: optimal_action is replaced only by a strictly better
\* action, so it ends as the first action, in the order actions(board) is
\* walked, that reaches the best value.  actions(board) is a Python set, whose
\* order the language does not fix: any action that reaches the best value.
max_action(b) ==
    LET v == max_value(b)
    IN  {action \in actions(b) : min_value(result(b, action)) = v}

\* min_value(board)[1].
min_action(b) ==
    LET v == min_value(b)
    IN  {action \in actions(b) : max_value(result(b, action)) = v}

\* The values minimax can return.
minimax(b) ==
    IF terminal(b) THEN {None}
    ELSE IF player(b) = X THEN max_action(b)
    ELSE IF player(b) = O THEN min_action(b)
    ELSE {None}

---------------------------------------------------------------------------
(* The game: a board of any shape and any mines, a new player.  The game   *)
(* reveals a cell once: add_knowledge is called for cells that are not yet *)
(* moves made (make_safe_move and make_random_move return no other cell),  *)
(* and, the cell being revealed and not a mine, with nearby_mines(cell).   *)

\* What a move function returned: the function's name and its value.
Returned(fn, value) == [fn |-> fn, value |-> value]

InitOfSize(n) ==
    /\ height \in 1 .. n
    /\ width \in 1 .. n
    /\ height * width <= n
    /\ board \in SUBSET Cells(height, width)
    /\ moves_made = {}
    /\ mines = {}
    /\ safes = {}
    /\ knowledge = <<>>
    /\ ret = Returned("none", None)
    /\ pc = "idle"
    /\ idx = 0
    /\ new_sentences = <<>>
    /\ tboard = initial_state

Init == InitOfSize(MaxCells)

SetKB(kb) ==
    /\ moves_made' = kb.moves_made
    /\ mines' = kb.mines
    /\ safes' = kb.safes
    /\ knowledge' = kb.knowledge

\* A cell that has not been revealed and is not a mine is revealed, and the
\* player is told the number of mines around it: add_knowledge, start to end.
AddKnowledge ==
    /\ pc = "idle"
    /\ \E cell \in Cells(height, width) :
          /\ cell \notin moves_made
          /\ ~is_mine(cell)
          /\ SetKB(add_knowledge(kbNow, cell, nearby_mines(cell)))
    /\ ret' = Returned("none", None)
    /\ UNCHANGED <<tboard, height, width, board, pc, idx, new_sentences>>

MakeSafeMove ==
    /\ pc = "idle"
    /\ \E value \in make_safe_move(kbNow) : ret' = Returned("make_safe_move", value)
    /\ UNCHANGED <<tboard, height, width, board, moves_made, mines, safes, knowledge,
                   pc, idx, new_sentences>>

MakeRandomMove ==
    /\ pc = "idle"
    /\ \E value \in make_random_move(kbNow) : ret' = Returned("make_random_move", value)
    /\ UNCHANGED <<tboard, height, width, board, moves_made, mines, safes, knowledge,
                   pc, idx, new_sentences>>

Next == AddKnowledge \/ MakeSafeMove \/ MakeRandomMove

Spec == Init /\ [][Next]_vars

---------------------------------------------------------------------------
(* The same player fed by a board that may report anything: any cell not   *)
(* yet revealed, a mine or not, with any count the cell's position allows. *)

GridNeighbors(cell) == {c \in Square(cell) : c # cell /\ InBounds(c)}

InitUntruthful == InitOfSize(MaxCellsUntruthful)

AddKnowledgeUntruthful ==
    /\ pc = "idle"
    /\ \E cell \in Cells(height, width) :
          /\ cell \notin moves_made
          /\ \E count \in 0 .. Cardinality(GridNeighbors(cell)) :
                SetKB(add_knowledge(kbNow, cell, count))
    /\ ret' = Returned("none", None)
    /\ UNCHANGED <<tboard, height, width, board, pc, idx, new_sentences>>

NextUntruthful == AddKnowledgeUntruthful \/ MakeSafeMove \/ MakeRandomMove

SpecUntruthful == InitUntruthful /\ [][NextUntruthful]_vars

---------------------------------------------------------------------------
(* add_knowledge one loop iteration at a time.  The call is synchronous:   *)
(* once started it takes its next step until it returns.                   *)

InitSteps == InitOfSize(MaxCellsSteps)

\* Lines 195-216: the move, the safe cell and the new sentence.
StartAddKnowledge ==
    /\ pc = "idle"
    /\ \E cell \in Cells(height, width) :
          /\ cell \notin moves_made
          /\ ~is_mine(cell)
          /\ SetKB(Ingest(kbNow, cell, nearby_mines(cell)))
    /\ pc' = "extract"
    /\ idx' = 1
    /\ ret' = Returned("none", None)
    /\ UNCHANGED <<tboard, height, width, board, new_sentences>>

\* Lines 220-228: one iteration of "for sentence in self.knowledge".
ExtractStep ==
    /\ pc = "extract"
    /\ idx <= Len(knowledge)
    /\ LET kb1 == ExtractAt(kbNow, idx)
       IN  /\ SetKB(kb1)
           /\ idx' = AfterExtract(kb1, idx)
    /\ UNCHANGED <<tboard, height, width, board, ret, pc, new_sentences>>

\* The extraction loop is over; line 233: new_sentences = [].
ExtractDone ==
    /\ pc = "extract"
    /\ idx > Len(knowledge)
    /\ pc' = "resolve"
    /\ idx' = 1
    /\ new_sentences' = <<>>
    /\ UNCHANGED <<tboard, height, width, board, moves_made, mines, safes, knowledge, ret>>

\* Lines 236-249: one iteration of "for super_sentence in self.knowledge".
ResolveStep ==
    /\ pc = "resolve"
    /\ idx <= Len(knowledge)
    /\ new_sentences' = new_sentences \o ResolveAt(knowledge, idx)
    /\ idx' = idx + 1
    /\ UNCHANGED <<tboard, height, width, board, moves_made, mines, safes, knowledge,
                   ret, pc>>

\* Line 252: self.knowledge.extend(new_sentences), and the call returns.
ExtendAndReturn ==
    /\ pc = "resolve"
    /\ idx > Len(knowledge)
    /\ knowledge' = knowledge \o new_sentences
    /\ pc' = "idle"
    /\ idx' = 0
    /\ new_sentences' = <<>>
    /\ UNCHANGED <<tboard, height, width, board, moves_made, mines, safes, ret>>

Running == ExtractStep \/ ExtractDone \/ ResolveStep \/ ExtendAndReturn

NextSteps == StartAddKnowledge \/ ExtractStep \/ ExtractDone \/ ResolveStep
                \/ ExtendAndReturn

SpecSteps == InitSteps /\ [][NextSteps]_vars /\ WF_vars(Running)

---------------------------------------------------------------------------
(* A game of Tic Tac Toe played by the rules: the players move in turn     *)
(* from initial_state until a player has three in a row or the board is    *)
(* full, and minimax is asked for a move on the boards the game reaches.   *)

\* The game is over, by the rules of Tic Tac Toe.
GameOver(b) ==
    \/ \E k \in DOMAIN Lines :
          /\ b[Lines[k][1]] = b[Lines[k][2]]
          /\ b[Lines[k][2]] = b[Lines[k][3]]
          /\ b[Lines[k][1]] # EMPTY
    \/ \A c \in Grid : b[c] # EMPTY

InitTicTacToe == InitOfSize(1) /\ board = {}

\* The player whose turn it is takes an empty cell.
Play ==
    /\ ~GameOver(tboard)
    /\ \E action \in actions(tboard) : tboard' = result(tboard, action)
    /\ ret' = Returned("none", None)
    /\ UNCHANGED <<height, width, board, moves_made, mines, safes, knowledge,
                   pc, idx, new_sentences>>

\* minimax(board), on a board with at most MaxEmpty empty cells.
Minimax ==
    /\ Cardinality(actions(tboard)) <= MaxEmpty
    /\ \E value \in minimax(tboard) : ret' = Returned("minimax", value)
    /\ UNCHANGED <<tboard, height, width, board, moves_made, mines, safes,
                   knowledge, pc, idx, new_sentences>>

NextTicTacToe == Play \/ Minimax

SpecTicTacToe == InitTicTacToe /\ [][NextTicTacToe]_vars

---------------------------------------------------------------------------
(* The properties checked of the knowledge base. *)

\* C1 (QuiescentCompleteness): between add_knowledge calls fed by a
\* truthful board, every sentence with count 0 has all its cells in safes and
\* every sentence with as many cells as its count has all its cells in mines.
QuiescentCompleteness ==
    \A k \in DOMAIN knowledge :
        /\ knowledge[k].count = 0 => knowledge[k].cells \subseteq safes
        /\ Cardinality(knowledge[k].cells) = knowledge[k].count
              => knowledge[k].cells \subseteq mines

\* C2 (Disjointness): under truthful observations of cells that are not
\* mines, no cell is both in mines and in safes.
Disjointness == mines \cap safes = {}

\* Both sets hold cells that inference put there, after several observations.
DisjointnessWitness ==
    /\ mines # {}
    /\ safes \ moves_made # {}
    /\ Cardinality(moves_made) >= 2

\* A sentence is true of the board: exactly count of its cells are mines.
TrueOfBoard(s) == Cardinality(s.cells \cap board) = s.count

\* C3 (Soundness): under truthful observations every sentence of the
\* knowledge base is true of the board, every cell in mines is a mine of the
\* board, no cell in safes is one, and make_safe_move never returns one.
Soundness ==
    /\ \A k \in DOMAIN knowledge : TrueOfBoard(knowledge[k])
    /\ mines \subseteq board
    /\ safes \cap board = {}
    /\ (ret.fn = "make_safe_move" /\ ret.value # None) => ret.value \notin board

\* A knowledge base with an undetermined sentence and a sentence derived by
\* resolution, a known mine, and a safe move returned that was inferred.
SoundnessWitness ==
    /\ \E k \in DOMAIN knowledge :
          /\ knowledge[k].count > 0
          /\ Cardinality(knowledge[k].cells) > knowledge[k].count
    /\ Len(knowledge) >= 3
    /\ mines # {}
    /\ ret.fn = "make_safe_move"
    /\ ret.value # None

\* C4 (ContradictionsReported): whatever the board reports, the
\* knowledge base never holds a cell in both mines and safes, nor a sentence
\* with count < 0 or count > |cells|.  add_knowledge has no failure outcome
\* (it raises nothing and returns None on every path), so every state between
\* calls is one it has accepted without a report.
ContradictionsReported ==
    /\ mines \cap safes = {}
    /\ \A k \in DOMAIN knowledge :
          /\ 0 <= knowledge[k].count
          /\ knowledge[k].count <= Cardinality(knowledge[k].cells)

\* The call in this step is add_knowledge(cell, nearby_mines(cell)).
Observes(cell) == cell \notin moves_made /\ cell \in moves_made'

\* C5 (ZeroObservation): when add_knowledge(cell, 0) returns, under
\* truthful observations, every in-bounds grid neighbor of cell is in safes.
ZeroObservation ==
    [][\A cell \in Cells(height, width) :
          (Observes(cell) /\ nearby_mines(cell) = 0)
              => GridNeighbors(cell) \subseteq safes']_vars

\* A board with a mine where, after another observation, a cell with three
\* or more neighbors was observed with count 0 and the neighbors are safe
\* though not all of them were observed.
ZeroObservationWitness ==
    /\ board # {}
    /\ Cardinality(moves_made) >= 2
    /\ \E cell \in moves_made :
          /\ nearby_mines(cell) = 0
          /\ Cardinality(GridNeighbors(cell)) >= 3
          /\ GridNeighbors(cell) \subseteq safes
          /\ ~(GridNeighbors(cell) \subseteq moves_made)

\* C6 (SubsetResolutionYieldsFacts): for sentences A and B that the
\* resolution pass of a call finds in the knowledge base, B's cells a
\* non-empty strict subset of A's, the call returns with the sentence
\* (A.cells - B.cells, A.count - B.count) in the knowledge base, its cells in
\* safes if that count is 0 and in mines if that count is their number.
SubsetResolutionYieldsFacts ==
    [][\A cell \in Cells(height, width) :
          Observes(cell) =>
              LET kn == Extraction(Ingest(kbNow, cell, nearby_mines(cell))).knowledge
              IN  \A a, b \in DOMAIN kn :
                      (/\ kn[b].cells # {}
                       /\ kn[b].cells \subseteq kn[a].cells
                       /\ kn[b].cells # kn[a].cells)
                      => LET diff == kn[a].cells \ kn[b].cells
                             n    == kn[a].count - kn[b].count
                         IN  /\ InKnowledge(Sentence(diff, n), knowledge')
                             /\ n = 0 => diff \subseteq safes'
                             /\ n = Cardinality(diff) => diff \subseteq mines']_vars

\* C7 (FixedPointIdempotence): between calls, running the inference part
\* again (extraction, then resolution) changes neither mines, nor safes, nor
\* the sentences.
FixedPointIdempotence ==
    LET again == Inference(kbNow)
    IN  /\ again.mines = mines
        /\ again.safes = safes
        /\ again.knowledge = knowledge

\* The orders in which the cells of S can be observed.
Orders(S) ==
    {o \in [1 .. Cardinality(S) -> S] :
        \A i, j \in DOMAIN o : i # j => o[i] # o[j]}

EmptyKB == KB({}, {}, {}, <<>>)

\* A new player fed the truthful observations of the cells of order, in order.
RECURSIVE Replay(_, _)
Replay(kb, order) ==
    IF order = <<>> THEN kb
    ELSE Replay(add_knowledge(kb, Head(order), nearby_mines(Head(order))),
                Tail(order))

\* C8 (OrderIndependence): the same truthful observations ingested in any
\* other order give the same mines and the same safes.
OrderIndependence ==
    \A o \in Orders(moves_made) :
        LET other == Replay(EmptyKB, o)
        IN  other.mines = mines /\ other.safes = safes

\* C9 (NoDuplicateSentences): between calls the knowledge base holds no
\* two sentences with the same cells and the same count.
NoDuplicateSentences ==
    \A i, j \in DOMAIN knowledge : i # j => knowledge[i] # knowledge[j]

\* C10 (Termination): every add_knowledge call that has started runs its
\* extraction and its resolution to the end and returns.
Termination == (pc # "idle") ~> (pc = "idle")

\* A call that walked a knowledge base of several sentences, sentences added
\* by resolution among them, has returned.
TerminationWitness ==
    /\ pc = "idle"
    /\ Cardinality(moves_made) >= 2
    /\ Len(knowledge) >= 4

\* C11 (SafeMoveContract): make_safe_move returns a cell that is in safes
\* and not in moves_made when there is one, None exactly when every cell of
\* safes is in moves_made, and changes none of moves_made, mines, safes and
\* the sentences.
SafeMoveContract ==
    [][ret'.fn = "make_safe_move" =>
          /\ UNCHANGED <<moves_made, mines, safes, knowledge>>
          /\ ret'.value = None <=> safes \subseteq moves_made
          /\ ret'.value # None =>
                (ret'.value \in safes /\ ret'.value \notin moves_made)]_vars

\* make_safe_move has returned a cell while safes holds moves made too and
\* a mine is known.
SafeMoveWitness ==
    /\ ret.fn = "make_safe_move"
    /\ ret.value # None
    /\ safes \cap moves_made # {}
    /\ mines # {}

\* C12 (RandomMoveContract): make_random_move returns only an in-bounds
\* cell that is neither in moves_made nor in mines, and None exactly when
\* every cell of the board is in moves_made or in mines.
RandomMoveContract ==
    [][ret'.fn = "make_random_move" =>
          /\ ret'.value = None <=>
                Cells(height, width) \subseteq (moves_made \cup mines)
          /\ ret'.value # None =>
                /\ ret'.value \in Cells(height, width)
                /\ ret'.value \notin moves_made
                /\ ret'.value \notin mines]_vars

\* make_random_move has returned a cell on a board with a known mine and
\* moves made.
RandomMoveWitness ==
    /\ ret.fn = "make_random_move"
    /\ ret.value # None
    /\ mines # {}
    /\ moves_made # {}

\* C15 (ObservedCellPropagated): when add_knowledge(cell, count) returns,
\* cell is in moves_made and in safes and no sentence of the knowledge base,
\* old or new, contains cell.
ObservedCellPropagated ==
    [][\A cell \in Cells(height, width) :
          Observes(cell) =>
              /\ cell \in moves_made'
              /\ cell \in safes'
              /\ \A k \in DOMAIN knowledge' : cell \notin knowledge'[k].cells]_vars

\* The sentence add_knowledge(cell, nearby_mines(cell)) builds and appends
\* (line 216), before any inference.
BuiltSentence(cell) ==
    Ingest(kbNow, cell, nearby_mines(cell)).knowledge[Len(knowledge) + 1]

\* C16 (NewSentenceConstruction): the sentence add_knowledge(cell, count)
\* builds has as cells the in-bounds neighbors of cell that are not in mines,
\* not in moves_made and not in safes, and as count the reported count minus
\* the number of neighbors in mines.
NewSentenceConstruction ==
    [][\A cell \in Cells(height, width) :
          Observes(cell) =>
              /\ BuiltSentence(cell).cells =
                    {c \in GridNeighbors(cell) :
                        c \notin mines /\ c \notin moves_made /\ c \notin safes}
              /\ BuiltSentence(cell).count =
                    nearby_mines(cell) - Cardinality(GridNeighbors(cell) \cap mines)]_vars

\* C17 (NoVacuousSentenceAppended): no sentence with an empty cell set is
\* appended to the knowledge base, neither the observation sentence nor a
\* sentence of the resolution pass.
NoVacuousSentenceAppended ==
    [][\A cell \in Cells(height, width) :
          Observes(cell) =>
              LET ingested == Ingest(kbNow, cell, nearby_mines(cell))
                  resolved == SuperLoop(Extraction(ingested).knowledge, 1)
              IN  /\ \A k \in DOMAIN ingested.knowledge :
                        k > Len(knowledge) => ingested.knowledge[k].cells # {}
                  /\ \A k \in DOMAIN resolved : resolved[k].cells # {}]_vars

\* C18 (CountRange): under truthful observations every sentence of the
\* knowledge base has 0 <= count <= |cells|.
CountRange ==
    \A k \in DOMAIN knowledge :
        /\ 0 <= knowledge[k].count
        /\ knowledge[k].count <= Cardinality(knowledge[k].cells)

\* A knowledge base with a sentence emptied by marks, an undetermined
\* sentence and a sentence whose cells are all mines, a mine being known.
CountRangeWitness ==
    /\ mines # {}
    /\ \E k \in DOMAIN knowledge : knowledge[k].cells = {}
    /\ \E k \in DOMAIN knowledge :
          /\ 0 < knowledge[k].count
          /\ knowledge[k].count < Cardinality(knowledge[k].cells)
    /\ \E k \in DOMAIN knowledge :
          /\ 0 < knowledge[k].count
          /\ knowledge[k].count = Cardinality(knowledge[k].cells)

\* C19 (ReRecordingIsNoOp): mark_safe of a cell already in safes and
\* mark_mine of a cell already in mines change neither mines, nor safes, nor
\* any sentence.
ReRecordingIsNoOp ==
    /\ \A cell \in safes : mark_safe(kbNow, cell) = kbNow
    /\ \A cell \in mines : mark_mine(kbNow, cell) = kbNow

\* C20 (KnownMinesOnlyWhenPositive): known_mines returns the cells only
\* of a sentence with |cells| = count and count > 0, and nothing (None) of
\* every other sentence, the one with no cells and count 0 included.
KnownMinesOnlyWhenPositive ==
    \A k \in DOMAIN knowledge :
        LET s == knowledge[k]
        IN  IF Cardinality(s.cells) = s.count /\ s.count > 0
            THEN known_mines(s) = Some(s.cells)
            ELSE known_mines(s) = Nothing

\* C20 (KnownMinesContract), as amended: known_mines returns the cells of
\* a sentence exactly when |cells| = count, count 0 included (then the empty
\* set, not None), and nothing (None) of every other sentence.
KnownMinesContract ==
    \A k \in DOMAIN knowledge :
        LET s == knowledge[k]
        IN  /\ known_mines(s) # Nothing <=> Cardinality(s.cells) = s.count
            /\ known_mines(s) # Nothing => known_mines(s) = Some(s.cells)
            /\ (s.cells = {} /\ s.count = 0) => known_mines(s) = Some({})

\* The knowledge base holds the empty sentence with count 0, a sentence whose
\* cells are all mines and a sentence that determines nothing.
KnownMinesWitness ==
    /\ \E k \in DOMAIN knowledge :
          knowledge[k].cells = {} /\ knowledge[k].count = 0
    /\ \E k \in DOMAIN knowledge :
          knowledge[k].cells # {} /\ known_mines(knowledge[k]) # Nothing
    /\ \E k \in DOMAIN knowledge : known_mines(knowledge[k]) = Nothing

\* C13: on every board a game played by the rules reaches, terminal(board) is
\* True exactly when the game is over: winner(board) is not None, or no empty
\* cell remains.
TerminalExactlyWhenGameOver ==
    terminal(tboard) <=> (winner(tboard) # EMPTY \/ actions(tboard) = {})

RECURSIVE GameValue(_)

\* The value of a board under best play by both sides, the game ending as soon
\* as a player has three in a row: X maximises utility, O minimises it.
GameValue(b) ==
    IF GameOver(b) THEN utility(b)
    ELSE LET values == {GameValue(result(b, action)) : action \in actions(b)}
         IN  IF player(b) = X
             THEN CHOOSE v \in values : \A w \in values : v >= w
             ELSE CHOOSE v \in values : \A w \in values : v <= w

\* C14: on every board a game played by the rules reaches, minimax(board) is
\* None when the game is over, and otherwise a legal action that keeps the
\* value of the board for the player to move.
MinimaxOptimal ==
    ret.fn = "minimax" =>
        IF GameOver(tboard)
        THEN ret.value = None
        ELSE /\ ret.value \in actions(tboard)
             /\ GameValue(result(tboard, ret.value)) = GameValue(tboard)

\* C21: between calls of add_knowledge, no sentence of the knowledge base
\* contains a cell that is in mines.
NoKnownMineInSentences ==
    \A k \in DOMAIN knowledge : knowledge[k].cells \cap mines = {}

\* Mines are known, several cells have been observed, and a sentence that
\* still has cells lies next to a known mine.
NoKnownMineInSentencesWitness ==
    /\ Cardinality(moves_made) >= 2
    /\ \E k \in DOMAIN knowledge :
          /\ knowledge[k].cells # {}
          /\ \E cell \in knowledge[k].cells : GridNeighbors(cell) \cap mines # {}

====
